---- MODULE Spec2Model ----
(***************************************************************************)
(* Hybrid retrieval engine of the MLcreator Unity knowledge base           *)
(* (openspec/unity-kb/hybrid_search.py, qdrant_config.py).                 *)
(*                                                                         *)
(* Texts are sequences of one-character strings; tokens are strings.       *)
(* Weights are in hundredths (0.7 is 70).  Optional values are records     *)
(* [isNone |-> TRUE] or [isNone |-> FALSE, val |-> v].                     *)
(***************************************************************************)
EXTENDS Integers, Sequences, FiniteSets, TLC

VARIABLES
    text,          \* tokenizer: the text handed to tokenize / to_sparse_vector
    tokens,        \* tokenizer: result of tokenize(text)
    sparse,        \* tokenizer: result of to_sparse_vector(text)
    tokpc,         \* tokenizer: "input" before the call, "done" after it
    embedding_fn,  \* HybridSearchEngine.embedding_fn is configured
    pc,            \* search: "idle" between calls, "done" when a call returned or raised
    call,          \* search: the arguments of the current call
    env,           \* search: what the index answers during the current call
    requests,      \* search: the index requests issued by the current call, in order
    response,      \* search: the HybridSearchResponse returned
    raised,        \* search: an exception propagated out of search()
    via,           \* search: the engine method the caller entered by
    _search_engine,  \* module global of hybrid_search.py: 0 is None, else the engine's number
    engines,       \* the HybridSearchEngine instances constructed so far, in order
    caller,        \* get_search_engine: each caller's position, argument, local and result
    indexer,       \* ProjectIndexer: stage, files left, points, upserts, stats
    scenes         \* SceneIndexer: indexed_scenes, the calls of kb.index_scene_file, last call

vars == <<text, tokens, sparse, tokpc, embedding_fn, pc, call, env, requests, response, raised, via, _search_engine, engines, caller, indexer, scenes>>

tokVars == <<text, tokens, sparse, tokpc>>
searchVars == <<embedding_fn, pc, call, env, requests, response, raised, via>>
singletonVars == <<_search_engine, engines, caller>>
toolVars == <<singletonVars, indexer, scenes>>

(***************************************************************************)
(* Optional values                                                         *)
(***************************************************************************)
None == [isNone |-> TRUE]
Some(v) == [isNone |-> FALSE, val |-> v]

(***************************************************************************)
(* Generic helpers                                                         *)
(***************************************************************************)
RECURSIVE Take(_, _)
Take(s, n) == IF n <= 0 \/ s = <<>> THEN <<>> ELSE <<Head(s)>> \o Take(Tail(s), n - 1)

RECURSIVE SelectSeqBy(_, _)
SelectSeqBy(s, keep) ==
    IF s = <<>> THEN <<>>
    ELSE (IF Head(s) \in keep THEN <<Head(s)>> ELSE <<>>) \o SelectSeqBy(Tail(s), keep)

Range(s) == {s[i] : i \in 1..Len(s)}

RECURSIVE IndexOf(_, _)
IndexOf(s, x) == IF s = <<>> THEN 0
                 ELSE IF Head(s) = x THEN 1
                 ELSE LET r == IndexOf(Tail(s), x) IN IF r = 0 THEN 0 ELSE r + 1

(***************************************************************************)
(* BM25Tokenizer                                                           *)
(***************************************************************************)
UpperLetters == <<"A","B","C","D","E","F","G","H","I","J","K","L","M",
                  "N","O","P","Q","R","S","T","U","V","W","X","Y","Z">>
LowerLetters == <<"a","b","c","d","e","f","g","h","i","j","k","l","m",
                  "n","o","p","q","r","s","t","u","v","w","x","y","z">>
Digits == {"0","1","2","3","4","5","6","7","8","9"}
\* letters outside ASCII that the model's texts use: the sharp s has no
\* single-character upper case, str.upper() maps it to "SS"
OtherLetters == {"ß"}

IsUpper(c) == c \in Range(UpperLetters)
IsSpace(c) == c \in {" ", "\t", "\n"}
\* \w of the re module on str patterns: Unicode letters, digits, the underscore
IsWord(c) == c \in Range(UpperLetters) \cup Range(LowerLetters) \cup OtherLetters \cup Digits \cup {"_"}

\* str.lower(), one character at a time
LowerChar(c) == IF IsUpper(c) THEN LowerLetters[IndexOf(UpperLetters, c)] ELSE c
Lower(s) == [i \in 1..Len(s) |-> LowerChar(s[i])]

\* str.upper(), one character at a time; the result of one character may be
\* more than one character long
UpperChar(c) ==
    IF c \in Range(LowerLetters) THEN <<UpperLetters[IndexOf(LowerLetters, c)]>>
    ELSE IF c = "ß" THEN <<"S", "S">>
    ELSE <<c>>
RECURSIVE Upper(_)
Upper(s) == IF s = <<>> THEN <<>> ELSE UpperChar(Head(s)) \o Upper(Tail(s))

\* camel_case_pattern.sub(' ', s): a space is inserted at every position that
\* is not the start of the string and is followed by a character of [A-Z]
RECURSIVE CamelFrom(_, _)
CamelFrom(s, i) ==
    IF i > Len(s) THEN <<>>
    ELSE (IF i > 1 /\ IsUpper(s[i]) THEN <<" ", s[i]>> ELSE <<s[i]>>) \o CamelFrom(s, i + 1)
CamelCaseSub(s) == CamelFrom(s, 1)

\* re.sub(r'[^\w\s_]', ' ', s)
SpecialCharsSub(s) == [i \in 1..Len(s) |-> IF IsWord(s[i]) \/ IsSpace(s[i]) THEN s[i] ELSE " "]

IsSep(c) == IsSpace(c) \/ c = "_"

\* re.split(r'[\s_]+', s): the pieces between maximal runs of separators, as
\* character sequences; a leading or trailing run leaves an empty piece
RECURSIVE SplitFrom(_, _, _)
SplitFrom(s, i, cur) ==
    IF i > Len(s) THEN <<cur>>
    ELSE IF IsSep(s[i])
         THEN IF i > 1 /\ IsSep(s[i - 1]) THEN SplitFrom(s, i + 1, cur)
              ELSE <<cur>> \o SplitFrom(s, i + 1, <<>>)
         ELSE SplitFrom(s, i + 1, Append(cur, s[i]))
Split(s) == SplitFrom(s, 1, <<>>)

RECURSIVE Str(_)
Str(cs) == IF cs = <<>> THEN "" ELSE Head(cs) \o Str(Tail(cs))

stop_words == {
    "the", "a", "an", "and", "or", "but", "in", "on", "at", "to",
    "for", "of", "with", "by", "from", "as", "is", "was", "be",
    "this", "that", "it", "they", "we", "you", "i", "my", "your" }

\* a filter that lets every piece through, short ones and stop words too
RECURSIVE KeepAllTokens(_)
KeepAllTokens(pieces) ==
    IF pieces = <<>> THEN <<>>
    ELSE (IF Len(Head(pieces)) >= 1 THEN <<Str(Head(pieces))>> ELSE <<>>)
         \o KeepAllTokens(Tail(pieces))

RECURSIVE FilterTokens(_)
FilterTokens(pieces) ==
    IF pieces = <<>> THEN <<>>
    ELSE (IF Len(Head(pieces)) >= 2 /\ Str(Head(pieces)) \notin stop_words
          THEN <<Str(Head(pieces))>> ELSE <<>>) \o FilterTokens(Tail(pieces))

tokenize(t) == FilterTokens(Split(SpecialCharsSub(CamelCaseSub(Lower(t)))))

\* boost_tokens, in tenths
boost_tokens == [
    network |-> 20, rpc |-> 20, serverrpc |-> 25, clientrpc |-> 25,
    networkvariable |-> 20, networkobject |-> 20, networkbehaviour |-> 20,
    gamecreator |-> 20, instruction |-> 15, condition |-> 15,
    trigger |-> 15, character |-> 15, inventory |-> 15,
    spawn |-> 15, despawn |-> 15, owner |-> 15 ]

\* BM25Tokenizer.k1 = 1.5 and the default boost 1.0, in tenths
k1 == 15
default_boost == 10

\* the distinct tokens in order of first occurrence (the keys of the tf dict)
RECURSIVE Distinct(_, _)
Distinct(ts, seen) ==
    IF ts = <<>> THEN <<>>
    ELSE IF Head(ts) \in seen THEN Distinct(Tail(ts), seen)
         ELSE <<Head(ts)>> \o Distinct(Tail(ts), seen \cup {Head(ts)})

Count(ts, t) == Cardinality({i \in 1..Len(ts) : ts[i] = t})

\* int(hashlib.md5(token.encode()).hexdigest()[:8], 16): the digest is not
\* computed; the index of a token is the term md5-prefix-of-that-token
TokenHash(token) == <<"md5", token>>

\* TermWeight without the boost table: every token weighs as an unboosted one
TermWeightUnboosted(count, token) ==
    [num |-> count * default_boost, den |-> count * 10 + k1]

\* (count * boost) / (count + k1) as the fraction num / den
TermWeight(count, token) ==
    LET boost == IF token \in DOMAIN boost_tokens THEN boost_tokens[token] ELSE default_boost
    IN  [num |-> count * boost, den |-> count * 10 + k1]

\* to_sparse_vector: parallel lists indices, values
to_sparse_vector(t) ==
    LET ts == tokenize(t)
        keys == Distinct(ts, {})
    IN  [indices |-> [i \in 1..Len(keys) |-> TokenHash(keys[i])],
         values  |-> [i \in 1..Len(keys) |-> TermWeight(Count(ts, keys[i]), keys[i])]]

(***************************************************************************)
(* Texts handed to the tokenizer                                           *)
(***************************************************************************)
MaxTextLen == 4
TokAlphabet == {"a", "n", "N", "ß", "_", " ", "-"}

NetworkBehaviourText ==
    <<"N","e","t","w","o","r","k","B","e","h","a","v","i","o","u","r">>
RpcText == <<"r","p","c">>
RpcRpcNaText == <<"r","p","c","_","R","p","c"," ","n","a">>
TheText == <<"t","h","e">>
EmptyText == <<>>

BoundedTexts == UNION {[1..n -> TokAlphabet] : n \in 0..MaxTextLen}
Texts == BoundedTexts \cup {NetworkBehaviourText, RpcText, RpcRpcNaText, TheText}

NoSparse == [indices |-> <<>>, values |-> <<>>]

(***************************************************************************)
(* The search engine at rest (shared by both specifications)               *)
(***************************************************************************)
NoCall == [query |-> EmptyText, dense_vector |-> None, preset |-> None,
           filter_dict |-> None, limit |-> None, dense_weight |-> None,
           sparse_weight |-> None]
NoEnv == [down |-> {}, denseRank |-> <<>>, sparseRank |-> <<>>, cancelAt |-> 0]

SearchAtRest ==
    /\ pc = "idle"
    /\ call = NoCall
    /\ env = NoEnv
    /\ requests = <<>>
    /\ response = None
    /\ raised = FALSE
    /\ via = "none"

(***************************************************************************)
(* The module global, the project indexer and the scene indexer at rest    *)
(***************************************************************************)
NumCallers == 2
Callers == 1..NumCallers

NoCaller == [pc |-> "idle", embedding_fn |-> "none", made |-> 0, result |-> 0]
NoIndexer == [stage |-> "idle", files |-> 0, points |-> <<>>, upserts |-> <<>>,
              produced |-> 0,
              stats |-> [code_symbols |-> 0, doc_entries |-> 0, errors |-> 0]]
NoSceneCall == [path |-> "none", force |-> FALSE, dry_run |-> FALSE,
                called |-> FALSE, returned |-> "none"]
NoScenes == [indexed_scenes |-> {}, kb_calls |-> {}, ncalls |-> 0, last |-> NoSceneCall]

SingletonAtRest ==
    /\ _search_engine = 0
    /\ engines = <<>>
    /\ caller = [c \in Callers |-> NoCaller]

ToolsAtRest ==
    /\ SingletonAtRest
    /\ indexer = NoIndexer
    /\ scenes = NoScenes

(***************************************************************************)
(* Specification of the tokenizer: a text is drawn, to_sparse_vector       *)
(* (which calls tokenize) is applied to it.                                *)
(***************************************************************************)
TokInit ==
    /\ ToolsAtRest
    /\ text \in Texts
    /\ tokens = <<>>
    /\ sparse = NoSparse
    /\ tokpc = "input"
    /\ embedding_fn = FALSE
    /\ SearchAtRest

ToSparseVector ==
    /\ tokpc = "input"
    /\ tokens' = tokenize(text)
    /\ sparse' = to_sparse_vector(text)
    /\ tokpc' = "done"
    /\ UNCHANGED <<text, searchVars, toolVars>>

TokNext == ToSparseVector

SpecTok == TokInit /\ [][TokNext]_vars

(***************************************************************************)
(* qdrant_config: defaults and search presets                              *)
(***************************************************************************)
DEFAULT_DENSE_WEIGHT == 70
DEFAULT_SPARSE_WEIGHT == 30
DENSE_VECTOR_SIZE == 1024
DENSE_VECTOR_SIZE_SMALL == 384
default_limit == 20
dense_prefetch_limit == 100
sparse_prefetch_limit == 100
rrf_k == 60

\* A dict is a function on its keys; {} is the function with no key.
EmptyDict == <<>>
DictGet(d, key, default) == IF key \in DOMAIN d THEN d[key] ELSE default

\* A filter dict is the sequence of its items in insertion order, each a
\* record [k, v]: v is a value for a direct key, a sequence of condition
\* dicts for the keys must / should / must_not.
code_search ==
    [dense_weight |-> 60, sparse_weight |-> 40,
     filter |-> <<[k |-> "content_type", v |-> "code"]>>,
     prefetch_limit |-> 50, final_limit |-> 20]

semantic_search ==
    [dense_weight |-> 85, sparse_weight |-> 15,
     prefetch_limit |-> 100, final_limit |-> 20]

keyword_search ==
    [dense_weight |-> 30, sparse_weight |-> 70,
     prefetch_limit |-> 100, final_limit |-> 30]

network_code_search ==
    [dense_weight |-> 50, sparse_weight |-> 50,
     filter |-> <<[k |-> "must",
                   v |-> <<[key |-> "content_type", match |-> [value |-> "code"]],
                           [key |-> "is_network", match |-> [value |-> "True"]]>>]>>,
     prefetch_limit |-> 50, final_limit |-> 20]

gamecreator_search ==
    [dense_weight |-> 60, sparse_weight |-> 40,
     filter |-> <<[k |-> "should",
                   v |-> <<[key |-> "assembly_category", match |-> [value |-> "gamecreator_core"]],
                           [key |-> "assembly_category", match |-> [value |-> "gamecreator_module"]],
                           [key |-> "keywords",
                            match |-> [any |-> {"gamecreator", "instruction", "condition"}]]>>]>>,
     prefetch_limit |-> 50, final_limit |-> 20]

documentation_search ==
    [dense_weight |-> 75, sparse_weight |-> 25,
     filter |-> <<[k |-> "content_type", v |-> "doc"]>>,
     prefetch_limit |-> 50, final_limit |-> 15]

KnownPresets == {"code", "semantic", "keyword", "network", "gamecreator", "docs"}

\* a preset table that answers an unknown name with the code bundle
PresetOrCode(preset) ==
    CASE preset = "code" -> code_search
      [] preset = "semantic" -> semantic_search
      [] preset = "keyword" -> keyword_search
      [] preset = "network" -> network_code_search
      [] preset = "gamecreator" -> gamecreator_search
      [] preset = "docs" -> documentation_search
      [] OTHER -> code_search

\* HybridSearchEngine._get_preset_config
_get_preset_config(preset) ==
    CASE preset = "code" -> code_search
      [] preset = "semantic" -> semantic_search
      [] preset = "keyword" -> keyword_search
      [] preset = "network" -> network_code_search
      [] preset = "gamecreator" -> gamecreator_search
      [] preset = "docs" -> documentation_search
      [] OTHER -> EmptyDict

(***************************************************************************)
(* Filter building                                                         *)
(***************************************************************************)
\* HybridSearchEngine._build_condition: a FieldCondition [key, kind, arg]
_build_condition(condition) ==
    LET key == DictGet(condition, "key", "None")
        match == DictGet(condition, "match", EmptyDict)
    IN  IF "value" \in DOMAIN match THEN [key |-> key, kind |-> "value", arg |-> {match.value}]
        ELSE IF "any" \in DOMAIN match THEN [key |-> key, kind |-> "any", arg |-> match.any]
        ELSE IF "text" \in DOMAIN match THEN [key |-> key, kind |-> "text", arg |-> {match.text}]
        ELSE [key |-> key, kind |-> "value", arg |-> {"True"}]

BuildConditions(conds) == [i \in 1..Len(conds) |-> _build_condition(conds[i])]

\* HybridSearchEngine._build_filter: the lists must / should / must_not; an
\* empty list stands for the None the code passes to Filter
RECURSIVE BuildFrom(_, _)
BuildFrom(items, acc) ==
    IF items = <<>> THEN acc
    ELSE LET it == Head(items)
             nxt == CASE it.k = "must" ->
                          [acc EXCEPT !.must = @ \o BuildConditions(it.v)]
                      [] it.k = "should" ->
                          [acc EXCEPT !.should = @ \o BuildConditions(it.v)]
                      [] it.k = "must_not" ->
                          [acc EXCEPT !.must_not = @ \o BuildConditions(it.v)]
                      [] OTHER ->
                          [acc EXCEPT !.must =
                              Append(@, [key |-> it.k, kind |-> "value", arg |-> {it.v}])]
         IN  BuildFrom(Tail(items), nxt)

_build_filter(filter_dict) ==
    BuildFrom(filter_dict, [must |-> <<>>, should |-> <<>>, must_not |-> <<>>])

\* a test `is not None` in place of the truth value
IsNotNone(opt) == ~opt.isNone

\* truth value of an optional dict or list: None and the empty one are false
Truthy(opt) == ~opt.isNone /\ opt.val # <<>>

(***************************************************************************)
(* The index (Qdrant collection) as the engine sees it through             *)
(* client.query_points, client.search and client.scroll.  Scores are       *)
(* numerators over the common denominator ScoreOne (the score 1.0).        *)
(***************************************************************************)
NumRecords == 3
RecordIds == 1..NumRecords

RECURSIVE Product(_, _)
Product(lo, hi) == IF lo > hi THEN 1 ELSE lo * Product(lo + 1, hi)
ScoreOne == Product(rrf_k + 1, rrf_k + NumRecords)

\* payload of the record with a given id; every field is a set of values
Payload(id) ==
    [content_type |-> IF id % 2 = 1 THEN {"code"} ELSE {"doc"},
     is_network |-> IF id % 3 = 1 THEN {"True"} ELSE {"False"},
     assembly_category |-> IF id % 3 = 0 THEN {"gamecreator_core"} ELSE {"project"},
     keywords |-> IF id % 2 = 0 THEN {"instruction"} ELSE {"network"}]

CondHolds(c, id) ==
    /\ c.key \in DOMAIN Payload(id)
    /\ Payload(id)[c.key] \cap c.arg # {}

\* a compiled filter (None: no filter) applied to a record
FilterHolds(f, id) ==
    \/ f.isNone
    \/ /\ \A i \in 1..Len(f.val.must) : CondHolds(f.val.must[i], id)
       /\ f.val.should = <<>> \/ \E i \in 1..Len(f.val.should) : CondHolds(f.val.should[i], id)
       /\ \A i \in 1..Len(f.val.must_not) : ~CondHolds(f.val.must_not[i], id)

Matching(f) == {id \in RecordIds : FilterHolds(f, id)}

\* native score of the candidate at a position of a modality's ranking
NativeScore(using, pos) ==
    IF using = "dense" THEN ScoreOne - pos ELSE ScoreOne * (NumRecords + 1 - pos)

\* one modality's candidate list: its ranking of the collection, restricted
\* to the filter, cut at the limit, with native scores
Candidates(e, using, f, limit) ==
    LET ranking == IF using = "dense" THEN e.denseRank ELSE e.sparseRank
        ids == Take(SelectSeqBy(ranking, Matching(f)), limit)
    IN  [i \in 1..Len(ids) |-> [id |-> ids[i], score |-> NativeScore(using, i)]]

Ids(list) == [i \in 1..Len(list) |-> list[i].id]

\* contribution of one candidate list to the fused score of an id
RrfTerm(list, id) ==
    LET r == IndexOf(Ids(list), id) IN IF r = 0 THEN 0 ELSE ScoreOne \div (rrf_k + r)

RECURSIVE RrfScore(_, _)
RrfScore(lists, id) ==
    IF lists = <<>> THEN 0 ELSE RrfTerm(Head(lists), id) + RrfScore(Tail(lists), id)

RECURSIVE FirstSeen(_, _)
FirstSeen(lists, seen) ==
    IF lists = <<>> THEN <<>>
    ELSE LET new == Distinct(Ids(Head(lists)), seen)
         IN  new \o FirstSeen(Tail(lists), seen \cup Range(new))

\* stable sort, descending by score
RECURSIVE InsertByScore(_, _)
InsertByScore(sorted, x) ==
    IF sorted = <<>> THEN <<x>>
    ELSE IF Head(sorted).score >= x.score THEN <<Head(sorted)>> \o InsertByScore(Tail(sorted), x)
         ELSE <<x>> \o sorted

RECURSIVE SortByScore(_)
SortByScore(list) ==
    IF list = <<>> THEN <<>>
    ELSE InsertByScore(SortByScore(SubSeq(list, 1, Len(list) - 1)), list[Len(list)])

\* Fusion.RRF over the candidate lists of the prefetches
RrfFuse(lists, limit) ==
    LET ids == FirstSeen(lists, {})
        scored == [i \in 1..Len(ids) |-> [id |-> ids[i], score |-> RrfScore(lists, ids[i])]]
    IN  Take(SortByScore(scored), limit)

PrefetchLists(e, prefetch) ==
    [i \in 1..Len(prefetch) |->
        Candidates(e, prefetch[i].using, prefetch[i].filter, prefetch[i].limit)]

\* client.query_points(prefetch=..., query=FusionQuery(fusion=Fusion.RRF), limit=...)
QueryPoints(e, prefetch, limit) == RrfFuse(PrefetchLists(e, prefetch), limit)
QueryPointsFails(e, prefetch) ==
    "fusion" \in e.down \/ \E i \in 1..Len(prefetch) : prefetch[i].using \in e.down

\* client.search(query_vector=Named[Sparse]Vector(name=using, ...), ...)
ClientSearch(e, using, f, limit) == Candidates(e, using, f, limit)
ClientSearchFails(e, using) == using \in e.down

\* client.scroll(scroll_filter=..., limit=...): the matching records in the
\* index's own order
RECURSIVE UpTo(_)
UpTo(n) == IF n <= 0 THEN <<>> ELSE Append(UpTo(n - 1), n)
ClientScroll(e, f, limit) == Take(SelectSeqBy(UpTo(NumRecords), Matching(f)), limit)
ClientScrollFails(e) == "scroll" \in e.down

(***************************************************************************)
(* HybridSearchEngine                                                      *)
(***************************************************************************)
\* a dense vector is known by its length; `if dense_vector:` is false for
\* None and for the empty list
DenseTruthy(dv) == ~dv.isNone /\ dv.val.dim > 0

Request(op, prefetch, using, f, limit, failed) ==
    [op |-> op, prefetch |-> prefetch, using |-> using, filter |-> f,
     limit |-> limit, failed |-> failed]

Outcome(results, reqs, exc) == [results |-> results, requests |-> reqs, raised |-> exc]

\* the index refuses a dense vector whose length is not the size the
\* collection's dense field was created with
WrongVectorSize(dv) == DenseTruthy(dv) /\ dv.val.dim # DENSE_VECTOR_SIZE

\* the caller's interrupt (KeyboardInterrupt, the one the interactive loop
\* handles) arrives while the n-th index request of the call is in flight
Interrupted(e, n) == e.cancelAt = n

\* how an index request ends for the engine: answered, an Exception raised by
\* the client, or the interrupt raised in the blocked call
Ending(e, n, failed) == IF Interrupted(e, n) THEN "interrupt" ELSE IF failed THEN "error" ELSE "ok"

\* a handler written `except:`, which the interrupt does not pass either
BareExcept(ending) == ending # "ok"

\* `except Exception` catches the client's errors; KeyboardInterrupt is a
\* BaseException and passes through it
ExceptException(ending) == ending = "error"

\* a listing that gives up without asking the index when no vector is there
ScrollReturnsNothing(e, f, limit) == Outcome(<<>>, <<>>, FALSE)

\* _fallback_scroll_search: no try/except, every point gets score 1.0
_fallback_scroll_search(e, f, limit) ==
    LET ending == Ending(e, 1, ClientScrollFails(e))
        req == Request("scroll", <<>>, "none", f, limit, ending = "error")
        points == ClientScroll(e, f, limit)
    IN  IF ending # "ok" THEN Outcome(<<>>, <<req>>, TRUE)
        ELSE Outcome([i \in 1..Len(points) |-> [id |-> points[i], score |-> ScoreOne]],
                     <<req>>, FALSE)

\* a single-vector search sent without query_filter
SingleSearchUnfiltered(e, dense_vector, sparse_indices, f, limit) ==
    IF DenseTruthy(dense_vector) \/ sparse_indices # <<>>
    THEN LET using == IF DenseTruthy(dense_vector) THEN "dense" ELSE "sparse"
             ending == Ending(e, 2, ClientSearchFails(e, using)
                                    \/ (using = "dense" /\ WrongVectorSize(dense_vector)))
             req == Request("search", <<>>, using, None, limit, ending = "error")
         IN  IF ending # "ok" THEN Outcome(<<>>, <<req>>, TRUE)
             ELSE Outcome(ClientSearch(e, using, None, limit), <<req>>, FALSE)
    ELSE Outcome(<<>>, <<>>, FALSE)

\* a single-vector search that asks the sparse field first
SingleSearchSparseFirst(e, dense_vector, sparse_indices, f, limit) ==
    IF DenseTruthy(dense_vector) \/ sparse_indices # <<>>
    THEN LET using == IF sparse_indices # <<>> THEN "sparse" ELSE "dense"
             ending == Ending(e, 2, ClientSearchFails(e, using)
                                    \/ (using = "dense" /\ WrongVectorSize(dense_vector)))
             req == Request("search", <<>>, using, f, limit, ending = "error")
         IN  IF ending # "ok" THEN Outcome(<<>>, <<req>>, TRUE)
             ELSE Outcome(ClientSearch(e, using, f, limit), <<req>>, FALSE)
    ELSE Outcome(<<>>, <<>>, FALSE)

\* _fallback_single_search: dense if there is a dense vector, else sparse,
\* else []; no try/except.  It is only called from the handler of the fusion
\* request, so its request is the second of the call.
_fallback_single_search(e, dense_vector, sparse_indices, f, limit) ==
    IF DenseTruthy(dense_vector) \/ sparse_indices # <<>>
    THEN LET using == IF DenseTruthy(dense_vector) THEN "dense" ELSE "sparse"
             ending == Ending(e, 2, ClientSearchFails(e, using)
                                    \/ (using = "dense" /\ WrongVectorSize(dense_vector)))
             req == Request("search", <<>>, using, f, limit, ending = "error")
         IN  IF ending # "ok" THEN Outcome(<<>>, <<req>>, TRUE)
             ELSE Outcome(ClientSearch(e, using, f, limit), <<req>>, FALSE)
    ELSE Outcome(<<>>, <<>>, FALSE)

\* prefetch queries that take the sparse vector only when there is no dense
\* vector (elif in place of the second if)
PrefetchOneVector(dense_vector, sparse_indices, f) ==
    IF DenseTruthy(dense_vector)
    THEN <<[using |-> "dense", limit |-> dense_prefetch_limit, filter |-> f]>>
    ELSE IF sparse_indices # <<>>
         THEN <<[using |-> "sparse", limit |-> sparse_prefetch_limit, filter |-> f]>>
         ELSE <<>>

\* prefetch queries with the sparse prefetch appended unconditionally
PrefetchSparseAlways(dense_vector, sparse_indices, f) ==
    (IF DenseTruthy(dense_vector)
     THEN <<[using |-> "dense", limit |-> dense_prefetch_limit, filter |-> f]>>
     ELSE <<>>)
    \o <<[using |-> "sparse", limit |-> sparse_prefetch_limit, filter |-> f]>>

\* _hybrid_search_with_fusion, lines 261-286: one Prefetch per vector present
PrefetchQueries(dense_vector, sparse_indices, f) ==
    (IF DenseTruthy(dense_vector)
     THEN <<[using |-> "dense", limit |-> dense_prefetch_limit, filter |-> f]>>
     ELSE <<>>)
    \o
    (IF sparse_indices # <<>>
     THEN <<[using |-> "sparse", limit |-> sparse_prefetch_limit, filter |-> f]>>
     ELSE <<>>)

\* _hybrid_search_with_fusion; dense_weight and sparse_weight are parameters
\* the body never reads
_hybrid_search_with_fusion(e, dense_vector, sparse_indices, dense_weight, sparse_weight, f, limit) ==
    LET prefetch_queries == PrefetchQueries(dense_vector, sparse_indices, f)
    IN  IF prefetch_queries = <<>>
        THEN _fallback_scroll_search(e, f, limit)
        ELSE LET ending == Ending(e, 1, QueryPointsFails(e, prefetch_queries)
                                        \/ WrongVectorSize(dense_vector))
                 req == Request("query_points", prefetch_queries, "fusion", None, limit,
                                ending = "error")
             IN  IF ending = "ok"
                 THEN Outcome(QueryPoints(e, prefetch_queries, limit), <<req>>, FALSE)
                 ELSE IF ExceptException(ending)
                 THEN LET fb == _fallback_single_search(e, dense_vector, sparse_indices,
                                                        f, limit)
                      IN  Outcome(fb.results, <<req>> \o fb.requests, fb.raised)
                 ELSE Outcome(<<>>, <<req>>, TRUE)

\* the parameters of search() as Python binds them: a parameter the caller
\* does not pass takes its default
Param(arg, default) == IF arg.isNone THEN default ELSE arg.val

\* a preset whose filter is used whatever the caller passes
PresetFilterWins(a) ==
    LET dense_weight == Param(a.dense_weight, DEFAULT_DENSE_WEIGHT)
        sparse_weight == Param(a.sparse_weight, DEFAULT_SPARSE_WEIGHT)
        limit == Param(a.limit, default_limit)
    IN  IF ~a.preset.isNone /\ a.preset.val # ""
        THEN LET preset_config == _get_preset_config(a.preset.val)
             IN  [dense_weight |-> DictGet(preset_config, "dense_weight", dense_weight),
                  sparse_weight |-> DictGet(preset_config, "sparse_weight", sparse_weight),
                  filter_dict |-> IF "filter" \in DOMAIN preset_config
                                  THEN Some(preset_config.filter) ELSE a.filter_dict,
                  limit |-> DictGet(preset_config, "final_limit", limit)]
        ELSE [dense_weight |-> dense_weight, sparse_weight |-> sparse_weight,
              filter_dict |-> a.filter_dict, limit |-> limit]

\* search(), lines 199-206: the preset is applied over the parameters
ApplyPreset(a) ==
    LET dense_weight == Param(a.dense_weight, DEFAULT_DENSE_WEIGHT)
        sparse_weight == Param(a.sparse_weight, DEFAULT_SPARSE_WEIGHT)
        limit == Param(a.limit, default_limit)
    IN  IF ~a.preset.isNone /\ a.preset.val # ""
        THEN LET preset_config == _get_preset_config(a.preset.val)
             IN  [dense_weight |-> DictGet(preset_config, "dense_weight", dense_weight),
                  sparse_weight |-> DictGet(preset_config, "sparse_weight", sparse_weight),
                  filter_dict |-> IF "filter" \in DOMAIN preset_config /\ ~Truthy(a.filter_dict)
                                  THEN Some(preset_config.filter) ELSE a.filter_dict,
                  limit |-> DictGet(preset_config, "final_limit", limit)]
        ELSE [dense_weight |-> dense_weight, sparse_weight |-> sparse_weight,
              filter_dict |-> a.filter_dict, limit |-> limit]

EmbeddingVector == [dim |-> DENSE_VECTOR_SIZE]

\* an engine that embeds the query whether or not embedding_fn is set
AlwaysEmbeds(a, has_embedding_fn) ==
    IF a.dense_vector.isNone THEN Some(EmbeddingVector) ELSE a.dense_vector

\* search(), lines 208-210: the dense vector embedding_fn derives when the
\* caller passes none
GenerateDense(a, has_embedding_fn) ==
    IF a.dense_vector.isNone /\ has_embedding_fn THEN Some(EmbeddingVector) ELSE a.dense_vector

\* search(): what it returns or raises for arguments a, with the index
\* behaving as e and the engine's embedding_fn configured or not
search(a, e, has_embedding_fn) ==
    LET cfg == ApplyPreset(a)
        dense_vector == GenerateDense(a, has_embedding_fn)
        sv == to_sparse_vector(a.query)
        qdrant_filter == IF Truthy(cfg.filter_dict) THEN Some(_build_filter(cfg.filter_dict.val))
                         ELSE None
        out == _hybrid_search_with_fusion(e, dense_vector, sv.indices, cfg.dense_weight,
                                          cfg.sparse_weight, qdrant_filter, cfg.limit)
    IN  [args |-> a,
         requests |-> out.requests,
         raised |-> out.raised,
         response |-> IF out.raised THEN None
                      ELSE Some([results |-> out.results,
                                 total_found |-> Len(out.results),
                                 query |-> a.query,
                                 config_used |-> [dense_weight |-> cfg.dense_weight,
                                                  sparse_weight |-> cfg.sparse_weight,
                                                  preset |-> a.preset,
                                                  limit |-> cfg.limit]])]

\* search_docs delegating with the preset of search_code
SearchDocsAsCode(query, kwargs, e, has_embedding_fn) ==
    search([kwargs EXCEPT !.query = query, !.preset = Some("code")], e, has_embedding_fn)

\* the preset shortcuts of the engine, lines 441-463: each is
\* self.search(query, preset=<name>, **kwargs); kwargs is a call record whose
\* query and preset fields are not the caller's
search_code(query, kwargs, e, has_embedding_fn) ==
    search([kwargs EXCEPT !.query = query, !.preset = Some("code")], e, has_embedding_fn)
search_docs(query, kwargs, e, has_embedding_fn) ==
    search([kwargs EXCEPT !.query = query, !.preset = Some("docs")], e, has_embedding_fn)
search_network(query, kwargs, e, has_embedding_fn) ==
    search([kwargs EXCEPT !.query = query, !.preset = Some("network")], e, has_embedding_fn)
search_gamecreator(query, kwargs, e, has_embedding_fn) ==
    search([kwargs EXCEPT !.query = query, !.preset = Some("gamecreator")], e, has_embedding_fn)
\* HybridSearchEngine.keyword_search and .semantic_search (the plain names
\* are those of the SearchPresets bundles above)
engine_keyword_search(query, kwargs, e, has_embedding_fn) ==
    search([kwargs EXCEPT !.query = query, !.preset = Some("keyword")], e, has_embedding_fn)
engine_semantic_search(query, kwargs, e, has_embedding_fn) ==
    search([kwargs EXCEPT !.query = query, !.preset = Some("semantic")], e, has_embedding_fn)

Shortcuts == {"search_code", "search_docs", "search_network", "search_gamecreator",
              "keyword_search", "semantic_search"}

\* the method of the engine the caller names
CallMethod(method, query, kwargs, e, has_embedding_fn) ==
    CASE method = "search_code" -> search_code(query, kwargs, e, has_embedding_fn)
      [] method = "search_docs" -> search_docs(query, kwargs, e, has_embedding_fn)
      [] method = "search_network" -> search_network(query, kwargs, e, has_embedding_fn)
      [] method = "search_gamecreator" -> search_gamecreator(query, kwargs, e, has_embedding_fn)
      [] method = "keyword_search" -> engine_keyword_search(query, kwargs, e, has_embedding_fn)
      [] method = "semantic_search" -> engine_semantic_search(query, kwargs, e, has_embedding_fn)

(***************************************************************************)
(* Calls and index behaviours explored                                     *)
(***************************************************************************)
MaxLimit == 2

Queries == {EmptyText, TheText, RpcText}
DenseArgs == {None, Some(EmbeddingVector)}
\* a vector of the smaller embedding model, not the collection's size
SmallVector == [dim |-> DENSE_VECTOR_SIZE_SMALL]
PresetArgs == {None} \cup {Some(p) : p \in KnownPresets \cup {"bogus"}}
FilterArgs == {None, Some(<<>>), Some(<<[k |-> "content_type", v |-> "code"]>>)}
LimitArgs == {None} \cup {Some(n) : n \in 1..MaxLimit}
DenseWeightArgs == {None, Some(90)}
SparseWeightArgs == {None, Some(90)}

Calls ==
    [query : Queries, dense_vector : DenseArgs, preset : PresetArgs,
     filter_dict : FilterArgs, limit : LimitArgs,
     dense_weight : DenseWeightArgs, sparse_weight : SparseWeightArgs]

\* calls that pass a dense vector of the wrong size
MismatchCalls ==
    [query : Queries, dense_vector : {Some(SmallVector)}, preset : PresetArgs,
     filter_dict : FilterArgs, limit : LimitArgs,
     dense_weight : {None}, sparse_weight : {None}]

\* filter trees with empty clause lists, with a combinator node as the child
\* of a clause list, and with a leaf whose match names no declared kind
EmptyMustFilter == <<[k |-> "must", v |-> <<>>]>>
EmptyClausesFilter ==
    <<[k |-> "must", v |-> <<>>], [k |-> "should", v |-> <<>>], [k |-> "must_not", v |-> <<>>]>>
NestedFilter ==
    <<[k |-> "must",
       v |-> <<[should |-> <<[key |-> "content_type", match |-> [value |-> "doc"]],
                             [key |-> "is_network", match |-> [value |-> "True"]]>>]>>]>>
UnknownKindFilter ==
    <<[k |-> "must", v |-> <<[key |-> "content_type", match |-> [except |-> {"doc"}]]>>]>>
TreeFilters == {EmptyMustFilter, EmptyClausesFilter, NestedFilter, UnknownKindFilter}

\* calls that pass one of these filter trees
TreeCalls ==
    [query : Queries, dense_vector : DenseArgs, preset : {None, Some("network")},
     filter_dict : {Some(f) : f \in TreeFilters}, limit : LimitArgs,
     dense_weight : {None}, sparse_weight : {None}]

\* a query of a one-letter word and a stop word: no token survives tokenize
ShortStopText == <<"x", " ", "a", "n">>

\* calls with that query
NoTokenCalls ==
    [query : {ShortStopText}, dense_vector : DenseArgs, preset : PresetArgs,
     filter_dict : FilterArgs, limit : LimitArgs,
     dense_weight : {None}, sparse_weight : {None}]

AllCalls == Calls \cup MismatchCalls \cup TreeCalls \cup NoTokenCalls

\* the keyword arguments handed to a preset shortcut
ShortcutKwargs ==
    [query : {EmptyText}, dense_vector : DenseArgs, preset : {None},
     filter_dict : FilterArgs, limit : LimitArgs,
     dense_weight : {None}, sparse_weight : {None}]

\* rankings: the collection rotated, and reversed
Rot(r) == [i \in 1..NumRecords |-> ((i - 1 + r) % NumRecords) + 1]
Reverse(s) == [i \in 1..Len(s) |-> s[Len(s) + 1 - i]]
DenseRankings == {Rot(r) : r \in 0..(NumRecords - 1)}
SparseRankings == {Reverse(Rot(0)), <<NumRecords>>}

\* which index operations fail during a call
FailureModes == {{}, {"dense"}, {"sparse"}, {"fusion"}, {"scroll"},
                 {"dense", "sparse", "fusion", "scroll"}}

Envs == [down : FailureModes, denseRank : DenseRankings, sparseRank : SparseRankings,
         cancelAt : {0}]

\* the caller interrupts the call during its first or its second index request
CancelEnvs == [down : FailureModes, denseRank : {Rot(0)}, sparseRank : {Reverse(Rot(0))},
               cancelAt : {1, 2}]

\* index failures and interrupts are explored for the calls that leave the
\* weights alone (no request depends on the weights)
Explored(a, e) ==
    \/ a.dense_weight.isNone /\ a.sparse_weight.isNone
    \/ e.down = {} /\ e.cancelAt = 0

(***************************************************************************)
(* Specification of the engine: one search call at a time                  *)
(***************************************************************************)
Init ==
    /\ ToolsAtRest
    /\ embedding_fn \in BOOLEAN
    /\ SearchAtRest
    /\ text = EmptyText
    /\ tokens = <<>>
    /\ sparse = NoSparse
    /\ tokpc = "input"

Search ==
    /\ pc = "idle"
    /\ \E a \in AllCalls, e \in Envs \cup CancelEnvs :
        /\ Explored(a, e)
        /\ \E r \in {search(a, e, embedding_fn)} :
            /\ call' = r.args
            /\ env' = e
            /\ requests' = r.requests
            /\ response' = r.response
            /\ raised' = r.raised
    /\ via' = "search"
    /\ pc' = "done"
    /\ UNCHANGED <<embedding_fn, tokVars, toolVars>>

\* a call through one of the preset shortcuts; `call` holds the arguments
\* search() is entered with
Shortcut ==
    /\ pc = "idle"
    /\ \E method \in Shortcuts, query \in Queries, kwargs \in ShortcutKwargs, e \in Envs :
        \E r \in {CallMethod(method, query, kwargs, e, embedding_fn)} :
            /\ call' = r.args
            /\ env' = e
            /\ requests' = r.requests
            /\ response' = r.response
            /\ raised' = r.raised
            /\ via' = method
    /\ pc' = "done"
    /\ UNCHANGED <<embedding_fn, tokVars, toolVars>>

\* the caller has the response (or the exception); nothing of the call stays
Return ==
    /\ pc = "done"
    /\ pc' = "idle"
    /\ call' = NoCall
    /\ env' = NoEnv
    /\ requests' = <<>>
    /\ response' = None
    /\ raised' = FALSE
    /\ via' = "none"
    /\ UNCHANGED <<embedding_fn, tokVars, toolVars>>

Next == Search \/ Shortcut \/ Return

Spec == Init /\ [][Next]_vars

(***************************************************************************)
(* Specification of get_search_engine: callers that may run at the same    *)
(* time; a caller is preempted only between the steps below                *)
(***************************************************************************)
\* embedding functions a caller may pass ("none" is embedding_fn=None, which
\* is what hybrid_search passes)
EmbeddingFns == {"none", "f", "g"}

SingletonInit ==
    /\ SingletonAtRest
    /\ indexer = NoIndexer
    /\ scenes = NoScenes
    /\ embedding_fn = FALSE
    /\ SearchAtRest
    /\ text = EmptyText
    /\ tokens = <<>>
    /\ sparse = NoSparse
    /\ tokpc = "input"

notSingleton == <<tokVars, searchVars, indexer, scenes>>

\* get_search_engine(embedding_fn) is entered
GetSearchEngine(c) ==
    /\ caller[c].pc = "idle"
    /\ \E fn \in EmbeddingFns :
        caller' = [caller EXCEPT ![c].pc = "test", ![c].embedding_fn = fn]
    /\ UNCHANGED <<_search_engine, engines, notSingleton>>

\* line 476: if _search_engine is None
TestNone(c) ==
    /\ caller[c].pc = "test"
    /\ caller' = [caller EXCEPT ![c].pc = IF _search_engine = 0 THEN "construct" ELSE "return"]
    /\ UNCHANGED <<_search_engine, engines, notSingleton>>

\* line 477, right-hand side: HybridSearchEngine(embedding_fn=embedding_fn)
Construct(c) ==
    /\ caller[c].pc = "construct"
    /\ engines' = Append(engines, [embedding_fn |-> caller[c].embedding_fn])
    /\ caller' = [caller EXCEPT ![c].pc = "store", ![c].made = Len(engines) + 1]
    /\ UNCHANGED <<_search_engine, notSingleton>>

\* line 477, the assignment to the global
StoreGlobal(c) ==
    /\ caller[c].pc = "store"
    /\ _search_engine' = caller[c].made
    /\ caller' = [caller EXCEPT ![c].pc = "return"]
    /\ UNCHANGED <<engines, notSingleton>>

\* line 478: return _search_engine
ReturnEngine(c) ==
    /\ caller[c].pc = "return"
    /\ caller' = [caller EXCEPT ![c].pc = "done", ![c].result = _search_engine]
    /\ UNCHANGED <<_search_engine, engines, notSingleton>>

SingletonNext ==
    \E c \in Callers :
        \/ GetSearchEngine(c)
        \/ TestNone(c)
        \/ Construct(c)
        \/ StoreGlobal(c)
        \/ ReturnEngine(c)

SpecSingleton == SingletonInit /\ [][SingletonNext]_vars

(***************************************************************************)
(* Specification of ProjectIndexer.index_all: index_code, then index_docs. *)
(* A point is known by its number in order of production; a file is known  *)
(* by the number of points its symbols (documents) yield.                  *)
(***************************************************************************)
MaxFiles == 3
MaxSymbols == 2
\* IndexingConfig.index_batch_size (100 by default), explored small
index_batch_size == 2

\* a batch upsert that does not start a new list afterwards
BatchUpsertKeepsPoints(points, batch_size) ==
    IF Len(points) >= batch_size THEN [upsert |-> <<points>>, points |-> points]
    ELSE [upsert |-> <<>>, points |-> points]

\* lines 579-582 (612-615): after a file, upsert the points when there are
\* at least batch_size of them and start a new list
BatchUpsert(points, batch_size) ==
    IF Len(points) >= batch_size THEN [upsert |-> <<points>>, points |-> <<>>]
    ELSE [upsert |-> <<>>, points |-> points]

\* lines 584-586 (617-618): the final batch
FinalBatch(points) == IF points # <<>> THEN <<points>> ELSE <<>>

\* _upsert_points for each of the batches (none or one): the client's
\* exception is caught and counted, the batch is not sent again
_upsert_points(ix, batches, by, fails) ==
    [ix EXCEPT !.upserts = @ \o [i \in 1..Len(batches) |->
                                    [points |-> batches[i], failed |-> fails, by |-> by]],
               !.stats.errors = @ + (IF fails THEN Len(batches) ELSE 0)]

\* the loop body for one file that yields n points
IndexFile(ix, by, counter, n, fails) ==
    LET new == [i \in 1..n |-> ix.produced + i]
        after == BatchUpsert(ix.points \o new, index_batch_size)
        counted == [ix EXCEPT !.stats[counter] = @ + n, !.produced = @ + n,
                              !.files = @ - 1, !.points = after.points]
    IN  _upsert_points(counted, after.upsert, by, fails)

IndexerInit ==
    /\ indexer = NoIndexer
    /\ SingletonAtRest
    /\ scenes = NoScenes
    /\ embedding_fn = FALSE
    /\ SearchAtRest
    /\ text = EmptyText
    /\ tokens = <<>>
    /\ sparse = NoSparse
    /\ tokpc = "input"

notIndexer == <<tokVars, searchVars, singletonVars, scenes>>

\* index_all enters index_code: points = [], the code files are found
StartIndexCode ==
    /\ indexer.stage = "idle"
    /\ \E nfiles \in 0..MaxFiles :
        indexer' = [indexer EXCEPT !.stage = "code", !.files = nfiles, !.points = <<>>]
    /\ UNCHANGED notIndexer

IndexCodeFile ==
    /\ indexer.stage = "code" /\ indexer.files > 0
    /\ \E n \in 0..MaxSymbols, fails \in BOOLEAN :
        indexer' = IndexFile(indexer, "code", "code_symbols", n, fails)
    /\ UNCHANGED notIndexer

\* the final batch of index_code, then index_docs is entered
FinishCodeStartDocs ==
    /\ indexer.stage = "code" /\ indexer.files = 0
    /\ \E nfiles \in 0..MaxFiles, fails \in BOOLEAN :
        indexer' = [_upsert_points(indexer, FinalBatch(indexer.points), "code", fails)
                      EXCEPT !.stage = "docs", !.files = nfiles, !.points = <<>>]
    /\ UNCHANGED notIndexer

IndexDocFile ==
    /\ indexer.stage = "docs" /\ indexer.files > 0
    /\ \E n \in 0..MaxSymbols, fails \in BOOLEAN :
        indexer' = IndexFile(indexer, "docs", "doc_entries", n, fails)
    /\ UNCHANGED notIndexer

\* the final batch of index_docs
FinishDocs ==
    /\ indexer.stage = "docs" /\ indexer.files = 0
    /\ \E fails \in BOOLEAN :
        indexer' = [_upsert_points(indexer, FinalBatch(indexer.points), "docs", fails)
                      EXCEPT !.stage = "done", !.points = <<>>]
    /\ UNCHANGED notIndexer

IndexerNext ==
    \/ StartIndexCode
    \/ IndexCodeFile
    \/ FinishCodeStartDocs
    \/ IndexDocFile
    \/ FinishDocs

SpecIndexer == IndexerInit /\ [][IndexerNext]_vars

(***************************************************************************)
(* Specification of SceneIndexer: a sequence of index_scene calls on one   *)
(* indexer.  kb_calls is the set of calls of kb.index_scene_file made so   *)
(* far, each with the scene name and what the knowledge base answered.     *)
(***************************************************************************)
MaxSceneCalls == 3

ScenePaths == {"Levels/Main.unity", "Demo/Main.unity", "Menu.unity", "Missing.unity"}
\* os.path.exists(scene_path)
Exists(path) == path # "Missing.unity"
\* Path(scene_path).stem
Stem(path) ==
    CASE path \in {"Levels/Main.unity", "Demo/Main.unity"} -> "Main"
      [] path = "Menu.unity" -> "Menu"
      [] OTHER -> "Missing"

\* what kb.index_scene_file does: returns True, returns False, or raises
KbAnswers == {"True", "False", "raised"}

SceneCall(path, force, dry_run, called, returned) ==
    [path |-> path, force |-> force, dry_run |-> dry_run, called |-> called, returned |-> returned]

\* an index_scene that records the scene whatever the knowledge base returned
IndexSceneAddsUnchecked(sc, path, force, dry_run, answer) ==
    LET scene_name == Stem(path)
        counted == [sc EXCEPT !.ncalls = @ + 1]
    IN  IF ~Exists(path)
        THEN [counted EXCEPT !.last = SceneCall(path, force, dry_run, FALSE, "False")]
        ELSE IF scene_name \in sc.indexed_scenes /\ ~force
        THEN [counted EXCEPT !.last = SceneCall(path, force, dry_run, FALSE, "True")]
        ELSE IF dry_run
        THEN [counted EXCEPT !.last = SceneCall(path, force, dry_run, FALSE, "True")]
        ELSE [counted EXCEPT
                !.kb_calls = @ \cup {[name |-> scene_name, answer |-> answer]},
                !.indexed_scenes = IF answer # "raised" THEN @ \cup {scene_name} ELSE @,
                !.last = SceneCall(path, force, dry_run, TRUE, answer)]

\* SceneIndexer.index_scene, lines 54-84
index_scene(sc, path, force, dry_run, answer) ==
    LET scene_name == Stem(path)
        counted == [sc EXCEPT !.ncalls = @ + 1]
    IN  IF ~Exists(path)
        THEN [counted EXCEPT !.last = SceneCall(path, force, dry_run, FALSE, "False")]
        ELSE IF scene_name \in sc.indexed_scenes /\ ~force
        THEN [counted EXCEPT !.last = SceneCall(path, force, dry_run, FALSE, "True")]
        ELSE IF dry_run
        THEN [counted EXCEPT !.last = SceneCall(path, force, dry_run, FALSE, "True")]
        ELSE [counted EXCEPT
                !.kb_calls = @ \cup {[name |-> scene_name, answer |-> answer]},
                !.indexed_scenes = IF answer = "True" THEN @ \cup {scene_name} ELSE @,
                !.last = SceneCall(path, force, dry_run, TRUE, answer)]

ScenesInit ==
    /\ scenes = NoScenes
    /\ SingletonAtRest
    /\ indexer = NoIndexer
    /\ embedding_fn = FALSE
    /\ SearchAtRest
    /\ text = EmptyText
    /\ tokens = <<>>
    /\ sparse = NoSparse
    /\ tokpc = "input"

IndexScene ==
    /\ scenes.ncalls < MaxSceneCalls
    /\ \E path \in ScenePaths, force \in BOOLEAN, dry_run \in BOOLEAN, answer \in KbAnswers :
        scenes' = index_scene(scenes, path, force, dry_run, answer)
    /\ UNCHANGED <<tokVars, searchVars, singletonVars, indexer>>

ScenesNext == IndexScene

SpecScenes == ScenesInit /\ [][ScenesNext]_vars

(***************************************************************************)
(* What the current call resolved to, recomputed from its arguments        *)
(***************************************************************************)
Cancelled == env.cancelAt \in 1..Len(requests)
CallDone == pc = "done" /\ ~Cancelled
Returned == pc = "done" /\ ~raised
Resolved == ApplyPreset(call)
CallDense == IF call.dense_vector.isNone /\ embedding_fn THEN Some(EmbeddingVector)
             ELSE call.dense_vector
HasDense == DenseTruthy(CallDense)
HasSparse == to_sparse_vector(call.query).indices # <<>>
CallFilter == IF Truthy(Resolved.filter_dict) THEN Some(_build_filter(Resolved.filter_dict.val))
              ELSE None
KnownPreset == ~call.preset.isNone /\ call.preset.val \in KnownPresets
Results == response.val.results
FusionAnswered == requests # <<>> /\ requests[1].op = "query_points" /\ ~requests[1].failed

(***************************************************************************)
(* Claims                                                                  *)
(***************************************************************************)

\* C1: with a known preset and a dense_weight the caller supplies, the
\* configuration reported in config_used has the caller's dense_weight, and
\* the sparse weight the caller did not supply is the preset's.
C1_PresetOverridePrecedence ==
    (Returned /\ KnownPreset /\ ~call.dense_weight.isNone)
    => /\ response.val.config_used.dense_weight = call.dense_weight.val
       /\ call.sparse_weight.isNone
          => response.val.config_used.sparse_weight
               = _get_preset_config(call.preset.val).sparse_weight

\* C2: a search never returns more results than the limit the caller asked
\* for (the default limit when the caller passes none), preset or not.
C2_ResultLimitBound ==
    Returned => Len(Results) <= Param(call.limit, default_limit)

\* C3: with exactly one query vector present the call issues no fusion
\* request and returns that modality's candidate list, native scores kept,
\* cut at the limit.
C3_SingleModalityUnfused ==
    (Returned /\ HasDense # HasSparse)
    => /\ \A i \in 1..Len(requests) : requests[i].op # "query_points"
       /\ Results = ClientSearch(env, IF HasDense THEN "dense" ELSE "sparse",
                                 CallFilter, Resolved.limit)

C5_ModalityFailureNotFatal ==
    (CallDone /\ HasDense /\ HasSparse /\ env.down \in {{"dense"}, {"sparse"}})
    => /\ ~raised
       /\ Ids(Results) = Ids(ClientSearch(env, IF env.down = {"dense"} THEN "sparse" ELSE "dense",
                                          CallFilter, Resolved.limit))

\* C6: when every index request of a call failed, search does not raise and
\* returns a response with an empty result list.
C6_TotalFailureReturnsEmpty ==
    (CallDone /\ requests # <<>> /\ \A i \in 1..Len(requests) : requests[i].failed)
    => /\ ~raised
       /\ ~response.isNone
       /\ Results = <<>>

\* C7: the index requests of a call are tried most-capable first, each after
\* the failure of the one before: a failed fusion query is followed by a
\* single-vector search, a failed single-vector search by the listing.
C7_ThreeTierOrder ==
    CallDone =>
      \A i \in 1..Len(requests) :
        /\ i > 1 => requests[i - 1].failed
        /\ (requests[i].op = "query_points" /\ requests[i].failed)
           => (i < Len(requests) /\ requests[i + 1].op = "search")
        /\ (requests[i].op = "search" /\ requests[i].failed)
           => (i < Len(requests) /\ requests[i + 1].op = "scroll")

\* C8: after a successful fusion query the score of every result is the
\* weighted reciprocal-rank sum, dense_weight / (k + rank) over the dense
\* candidates plus sparse_weight / (k + rank) over the sparse candidates,
\* with the weights the search resolved (in hundredths).
C8_WeightedRrf ==
    (Returned /\ Len(requests) = 1 /\ requests[1].op = "query_points")
    => \A i \in 1..Len(Results) :
         Results[i].score * 100
           = (IF HasDense
              THEN Resolved.dense_weight
                     * RrfTerm(Candidates(env, "dense", CallFilter, dense_prefetch_limit),
                               Results[i].id)
              ELSE 0)
             + (IF HasSparse
                THEN Resolved.sparse_weight
                       * RrfTerm(Candidates(env, "sparse", CallFilter, sparse_prefetch_limit),
                                 Results[i].id)
                ELSE 0)

C10_CamelCaseSplit ==
    (tokpc = "done" /\ text = NetworkBehaviourText)
    => /\ tokens = <<"network", "behaviour">>
       /\ sparse.indices = <<TokenHash("network"), TokenHash("behaviour")>>

\* C11: upper-casing a text does not change the set of term indices of its
\* sparse vector: to_sparse_vector(s) and to_sparse_vector(s.upper()) have
\* the same indices, for every text s.
C11_CaseInsensitiveIndices ==
    tokpc = "done"
    => Range(sparse.indices) = Range(to_sparse_vector(Upper(text)).indices)

\* C12: to_sparse_vector has one (index, weight) pair for each distinct token
\* of tokenize(text), the weight being (frequency * boost) / (frequency + 1.5)
\* with the boost of the table or 1.0, and indices and values are equally long.
C12_SparseTermWeight ==
    tokpc = "done"
    => /\ Len(sparse.indices) = Len(sparse.values)
       /\ Len(sparse.indices) = Cardinality(Range(tokens))
       /\ \A t \in Range(tokens) :
            \E i \in 1..Len(sparse.indices) :
                LET frequency == Count(tokens, t)
                    boost == IF t \in DOMAIN boost_tokens THEN boost_tokens[t] ELSE 10
                IN  /\ sparse.indices[i] = TokenHash(t)
                    /\ sparse.values[i].num * (10 * frequency + 15)
                         = sparse.values[i].den * (frequency * boost)

\* "rpc_Rpc na": rpc occurs twice and is boosted 2.0, na once and is not
C12_Witness ==
    /\ tokpc = "done" /\ text = RpcRpcNaText
    /\ tokens = <<"rpc", "rpc", "na">>
    /\ sparse.indices = <<TokenHash("rpc"), TokenHash("na")>>
    /\ sparse.values = <<[num |-> 40, den |-> 35], [num |-> 10, den |-> 25]>>

(***************************************************************************)
(* What the requests of the current call carry                             *)
(***************************************************************************)
\* the named vectors the i-th request of the call searches
VectorsOf(i) ==
    IF requests[i].op = "query_points"
    THEN {requests[i].prefetch[j].using : j \in 1..Len(requests[i].prefetch)}
    ELSE IF requests[i].op = "search" THEN {requests[i].using} ELSE {}

\* the filters the i-th request of the call carries
FiltersOf(i) ==
    IF requests[i].op = "query_points"
    THEN {requests[i].prefetch[j].filter : j \in 1..Len(requests[i].prefetch)}
    ELSE {requests[i].filter}

IndexFailed == \E i \in 1..Len(requests) : requests[i].failed

\* C13: the sparse vector of the empty text has no term, and a search whose
\* sparse vector has no term sends no sparse prefetch and no sparse
\* single-vector query; if it raises, an index request of it failed.
C13_EmptyTextSkipsSparse ==
    /\ (CallDone /\ call.query = EmptyText) => ~HasSparse
    /\ (CallDone /\ ~HasSparse)
       => /\ \A i \in 1..Len(requests) : "sparse" \notin VectorsOf(i)
          /\ raised => IndexFailed

\* the empty query with a dense vector: one fusion request, dense prefetch only
C13_Witness ==
    /\ Returned /\ call.query = EmptyText /\ HasDense
    /\ Len(requests) = 1 /\ requests[1].op = "query_points"
    /\ Len(requests[1].prefetch) = 1
    /\ Len(Results) > 0

\* C14: with no embedding_fn on the engine and no dense_vector from the
\* caller, no request of the search uses the dense vector field, neither as a
\* prefetch nor as a single-vector query; if it raises, an index request of it
\* failed.
C14_NoEmbeddingNoDense ==
    (CallDone /\ ~embedding_fn /\ call.dense_vector.isNone)
    => /\ \A i \in 1..Len(requests) : "dense" \notin VectorsOf(i)
       /\ raised => IndexFailed

C14_Witness ==
    /\ Returned /\ ~embedding_fn /\ call.dense_vector.isNone /\ HasSparse
    /\ requests[1].op = "query_points"
    /\ VectorsOf(1) = {"sparse"}
    /\ Len(Results) > 0

\* C15: when the search has a non-empty filter, its compiled form is the
\* filter of every prefetch, single-vector search and listing the call sends,
\* and every record returned satisfies it; under the network preset's filter
\* every record returned has is_network true.
C15_FilterOnEveryPath ==
    (CallDone /\ ~CallFilter.isNone)
    => /\ \A i \in 1..Len(requests) : FiltersOf(i) = {CallFilter}
       /\ Returned => \A k \in 1..Len(Results) : FilterHolds(CallFilter, Results[k].id)
       /\ (Returned /\ call.preset = Some("network") /\ ~Truthy(call.filter_dict))
          => \A k \in 1..Len(Results) : Payload(Results[k].id).is_network = {"True"}

\* the fusion request failed, the single-vector search answered under the
\* filter, and the collection holds a record the filter excludes
C15_Witness ==
    /\ Returned /\ ~CallFilter.isNone
    /\ Len(requests) = 2 /\ requests[2].op = "search"
    /\ Len(Results) > 0
    /\ Matching(CallFilter) # RecordIds

\* C16: a search with a negative limit, or with an empty query and neither a
\* filter nor a preset, is rejected: it raises, and no index request was sent.
C16_MalformedRejected ==
    (CallDone /\ (\/ Param(call.limit, default_limit) < 0
                  \/ (call.query = EmptyText /\ call.filter_dict.isNone /\ call.preset.isNone)))
    => (raised /\ requests = <<>>)

\* C17: a search whose dense vector is not of the collection's size raises,
\* and sends nothing after the request the index refused.
C17_DimensionMismatchFailsFast ==
    (CallDone /\ WrongVectorSize(CallDense))
    => (raised /\ Len(requests) <= 1)

\* C18: search with a preset name that is not a known preset behaves as the
\* same call without a preset: same requests, same results, the caller's (or
\* default) weights and limit in config_used, the caller's filter on every
\* request, and no error other than a failed index request.
C18_UnknownPreset ==
    (CallDone /\ via = "search" /\ ~call.preset.isNone /\ call.preset.val \notin KnownPresets)
    => LET plain == search([call EXCEPT !.preset = None], env, embedding_fn)
           callerFilter == IF Truthy(call.filter_dict)
                           THEN Some(_build_filter(call.filter_dict.val)) ELSE None
       IN  /\ requests = plain.requests
           /\ raised = plain.raised
           /\ raised => IndexFailed
           /\ \A i \in 1..Len(requests) : FiltersOf(i) = {callerFilter}
           /\ Returned
              => /\ Results = plain.response.val.results
                 /\ response.val.config_used.dense_weight
                      = Param(call.dense_weight, DEFAULT_DENSE_WEIGHT)
                 /\ response.val.config_used.sparse_weight
                      = Param(call.sparse_weight, DEFAULT_SPARSE_WEIGHT)
                 /\ response.val.config_used.limit = Param(call.limit, default_limit)

C18_Witness ==
    /\ Returned /\ via = "search" /\ call.preset = Some("bogus")
    /\ call.dense_weight = Some(90) /\ call.limit = Some(1)
    /\ Truthy(call.filter_dict)
    /\ Len(Results) = 1

\* C19: a call through a preset shortcut enters search with the shortcut's
\* preset name and the caller's other arguments, and its requests, response
\* and exception are those of that search call.
C19_ShortcutsAreWrappers ==
    (CallDone /\ via \in Shortcuts)
    => LET name == CASE via = "search_code" -> "code"
                     [] via = "search_docs" -> "docs"
                     [] via = "search_network" -> "network"
                     [] via = "search_gamecreator" -> "gamecreator"
                     [] via = "keyword_search" -> "keyword"
                     [] via = "semantic_search" -> "semantic"
           direct == search([call EXCEPT !.preset = Some(name)], env, embedding_fn)
       IN  /\ call.preset = Some(name)
           /\ requests = direct.requests
           /\ response = direct.response
           /\ raised = direct.raised

C19_Witness ==
    /\ Returned /\ via = "search_docs"
    /\ call.limit = Some(1)
    /\ response.val.config_used.limit = documentation_search.final_limit
    /\ Len(Results) > 0

IsCombinator(c) == DOMAIN c \cap {"must", "should", "must_not"} # {}

LeafHolds(c, id) ==
    /\ c.key \in DOMAIN Payload(id)
    /\ \/ "value" \in DOMAIN c.match /\ c.match.value \in Payload(id)[c.key]
       \/ "any" \in DOMAIN c.match /\ c.match.any \cap Payload(id)[c.key] # {}
       \/ "text" \in DOMAIN c.match /\ c.match.text \in Payload(id)[c.key]

RECURSIVE NodeHolds(_, _)
NodeHolds(n, id) ==
    LET must == DictGet(n, "must", <<>>)
        should == DictGet(n, "should", <<>>)
        must_not == DictGet(n, "must_not", <<>>)
        Holds(c) == IF IsCombinator(c) THEN NodeHolds(c, id) ELSE LeafHolds(c, id)
    IN  /\ \A i \in 1..Len(must) : Holds(must[i])
        /\ should = <<>> \/ \E i \in 1..Len(should) : Holds(should[i])
        /\ \A i \in 1..Len(must_not) : ~Holds(must_not[i])

NoConditions == [must |-> <<>>, should |-> <<>>, must_not |-> <<>>]

\* an optional filter dict that is a tree: clause lists only
ClauseKeys == {"must", "should", "must_not"}
IsTree(fd) == ~fd.isNone /\ Len(fd.val) > 0 /\ \A i \in 1..Len(fd.val) : fd.val[i].k \in ClauseKeys
TreeOf(items) ==
    [key \in {items[i].k : i \in 1..Len(items)} |->
        items[CHOOSE i \in 1..Len(items) : items[i].k = key].v]
HasEmptyClausesOnly(fd) == IsTree(fd) /\ \A i \in 1..Len(fd.val) : Len(fd.val[i].v) = 0
HasNestedNode(fd) ==
    IsTree(fd) /\ \E i \in 1..Len(fd.val) : \E j \in 1..Len(fd.val[i].v) :
        IsCombinator(fd.val[i].v[j])
HasUnknownKind(fd) ==
    IsTree(fd) /\ \E i \in 1..Len(fd.val) : \E j \in 1..Len(fd.val[i].v) :
        LET c == fd.val[i].v[j]
        IN  /\ ~IsCombinator(c)
            /\ "match" \in DOMAIN c
            /\ DOMAIN c.match \cap {"value", "any", "text"} = {}

\* C21: a combinator node that is the child of a clause list is built
\* recursively: the compiled clause at its position is not a leaf field
\* condition, and the records returned are those the tree asks for.
C21_NestedFilterTrees ==
    (CallDone /\ HasNestedNode(call.filter_dict))
    => LET tree == TreeOf(call.filter_dict.val)
       IN  /\ \A i \in 1..Len(requests) : \A f \in FiltersOf(i) :
                /\ ~f.isNone
                /\ \A key \in DOMAIN tree :
                     /\ Len(f.val[key]) = Len(tree[key])
                     /\ \A j \in 1..Len(tree[key]) :
                          IsCombinator(tree[key][j]) => "kind" \notin DOMAIN f.val[key][j]
           /\ (Returned /\ requests[1].op = "scroll")
              => Ids(Results) = Take(SelectSeqBy(UpTo(NumRecords),
                                                 {id \in RecordIds : NodeHolds(tree, id)}),
                                     Resolved.limit)

\* C22: a filter leaf whose match has none of the kinds value, any, text
\* makes search raise before any index request is sent.
C22_UnknownMatchKind ==
    (CallDone /\ HasUnknownKind(call.filter_dict))
    => (raised /\ requests = <<>>)

\* C23: a filter tree whose clause lists are all empty compiles to a filter
\* with no condition, which every record satisfies; an empty filter tree
\* (with no preset filter to take its place) compiles to no filter, and None
\* is what every index request carries.
C23_EmptyFilters ==
    /\ (CallDone /\ HasEmptyClausesOnly(call.filter_dict))
       => /\ \A i \in 1..Len(requests) : \A f \in FiltersOf(i) :
                /\ ~f.isNone
                /\ \A key \in ClauseKeys : Len(f.val[key]) = 0
                /\ Matching(f) = RecordIds
          /\ (Returned /\ requests[1].op = "scroll")
             => Len(Results) = IF Resolved.limit < NumRecords THEN Resolved.limit
                               ELSE NumRecords
    /\ (CallDone /\ ~call.filter_dict.isNone /\ Len(call.filter_dict.val) = 0
          /\ (call.preset.isNone \/ "filter" \notin DOMAIN _get_preset_config(call.preset.val)))
       => \A i \in 1..Len(requests) : \A f \in FiltersOf(i) : f.isNone

\* {"must": []} on the listing path returns the whole collection, and {} was
\* seen to send a request without a filter
C23_Witness ==
    /\ Returned /\ HasEmptyClausesOnly(call.filter_dict)
    /\ requests[1].op = "scroll"
    /\ Len(Results) = NumRecords

\* C24: when the search resolves a known preset, every prefetch of its
\* fusion request is bounded by the prefetch limit of that preset's bundle.
C24_PresetPrefetchLimits ==
    (CallDone /\ KnownPreset)
    => \A i \in 1..Len(requests) :
          requests[i].op = "query_points"
          => \A j \in 1..Len(requests[i].prefetch) :
                requests[i].prefetch[j].limit
                  = _get_preset_config(call.preset.val).prefetch_limit

\* C25: when the fusion request fails with both a dense and a sparse vector
\* present, exactly one more request follows, the dense single-vector search;
\* its list is what the search returns (the search raises if that request
\* fails too), and the sparse field is not asked.
C25_FusionFailureDenseOnly ==
    (CallDone /\ HasDense /\ HasSparse /\ requests[1].op = "query_points" /\ requests[1].failed)
    => /\ Len(requests) = 2
       /\ requests[2].op = "search"
       /\ requests[2].using = "dense"
       /\ requests[2].failed <=> raised
       /\ Returned => Results = ClientSearch(env, "dense", CallFilter, Resolved.limit)

\* fusion alone is down: the dense list comes back, and the sparse ranking
\* would have put another record first
C25_Witness ==
    /\ Returned /\ HasDense /\ HasSparse /\ env.down = {"fusion"}
    /\ Len(requests) = 2
    /\ Len(Results) > 1
    /\ Results[1].id # env.sparseRank[1]

\* C26: with a known preset, the filter of every request is the compiled
\* filter of the caller when the caller's filter_dict is non-empty, and the
\* compiled filter of the preset otherwise; the two are never merged.
C26_CallerFilterReplacesPreset ==
    (CallDone /\ KnownPreset)
    => LET bundle == _get_preset_config(call.preset.val)
           expected == IF Truthy(call.filter_dict)
                       THEN Some(_build_filter(call.filter_dict.val))
                       ELSE IF "filter" \in DOMAIN bundle
                            THEN Some(_build_filter(bundle.filter))
                            ELSE None
       IN  \A i \in 1..Len(requests) : FiltersOf(i) = {expected}

\* search_network with a filter of the caller returns a record that is not
\* network code
C26_Witness ==
    /\ Returned /\ via = "search_network" /\ Truthy(call.filter_dict)
    /\ \E k \in 1..Len(Results) : Payload(Results[k].id).is_network = {"False"}

\* every piece of the query is a stop word or shorter than two characters
NoSurvivor(q) ==
    /\ q # <<>>
    /\ LET pieces == Split(SpecialCharsSub(CamelCaseSub(Lower(q))))
       IN  \A i \in 1..Len(pieces) : Len(pieces[i]) < 2 \/ Str(pieces[i]) \in stop_words

\* C27: a non-empty query none of whose tokens survives, with no dense
\* vector, takes the listing path: when the index answers the listing, the
\* search returns without error the first `limit` filter-matching records in
\* index order with score 1.0, and its response differs from that of the
\* empty query in the echoed query text only.
C27_NoSurvivingToken ==
    (CallDone /\ NoSurvivor(call.query) /\ ~HasDense /\ ~ClientScrollFails(env))
    => /\ ~raised
       /\ Len(requests) = 1
       /\ requests[1].op = "scroll"
       /\ requests[1].filter = CallFilter
       /\ Ids(Results) = Take(SelectSeqBy(UpTo(NumRecords), Matching(CallFilter)),
                              Resolved.limit)
       /\ \A k \in 1..Len(Results) : Results[k].score = ScoreOne
       /\ response.val
            = [search([call EXCEPT !.query = EmptyText], env, embedding_fn).response.val
                 EXCEPT !.query = call.query]

C27_Witness ==
    /\ Returned /\ call.query = ShortStopText /\ ~HasDense
    /\ call.limit = Some(1)
    /\ Len(Results) = 1 /\ Results[1].score = ScoreOne

\* C28: whatever the interleaving of the callers of get_search_engine, at
\* most one HybridSearchEngine is constructed, every caller that returned
\* received that instance, and its embedding function is the one of the
\* first construction.
C28_SingleSharedEngine ==
    /\ Len(engines) <= 1
    /\ \A c \in Callers : caller[c].pc = "done" => caller[c].result = 1

(***************************************************************************)
(* What the indexer has upserted                                           *)
(***************************************************************************)
RECURSIVE UpsertedBy(_, _)
UpsertedBy(upserts, by) ==
    IF upserts = <<>> THEN <<>>
    ELSE (IF Head(upserts).by \in by THEN Head(upserts).points ELSE <<>>)
         \o UpsertedBy(Tail(upserts), by)

NoUpsertFailed == \A i \in 1..Len(indexer.upserts) : ~indexer.upserts[i].failed

\* C29: every point produced is held in the list of points or was passed to
\* _upsert_points in exactly one batch, never both and never twice; between
\* files the list holds fewer than index_batch_size points, every batch but
\* the final one of a stage holds at least index_batch_size, and when a stage
\* has finished nothing of it is left unflushed; when no upsert failed the
\* counters code_symbols and doc_entries equal the numbers of points
\* index_code and index_docs upserted.
C29_BatchingExactlyOnce ==
    LET upserted == UpsertedBy(indexer.upserts, {"code", "docs"})
        held == upserted \o indexer.points
    IN  /\ \A id \in 1..indexer.produced : Count(held, id) = 1
        /\ Len(held) = indexer.produced
        /\ Len(indexer.points) < index_batch_size
        /\ \A i \in 1..Len(indexer.upserts) : indexer.upserts[i].points # <<>>
        /\ \A i \in 1..(Len(indexer.upserts) - 1) :
              indexer.upserts[i].by = indexer.upserts[i + 1].by
              => Len(indexer.upserts[i].points) >= index_batch_size
        /\ indexer.stage = "done" => Len(upserted) = indexer.produced
        /\ (indexer.stage \in {"docs", "done"} /\ NoUpsertFailed)
           => indexer.stats.code_symbols = Len(UpsertedBy(indexer.upserts, {"code"}))
        /\ (indexer.stage = "done" /\ NoUpsertFailed)
           => indexer.stats.doc_entries = Len(UpsertedBy(indexer.upserts, {"docs"}))

\* index_code flushed a full batch after a file and a remainder at its end
C29_Witness ==
    /\ indexer.stage = "done" /\ NoUpsertFailed
    /\ Len(indexer.upserts) >= 3
    /\ indexer.upserts[1].by = "code" /\ Len(indexer.upserts[1].points) > index_batch_size
    /\ indexer.upserts[2].by = "code" /\ Len(indexer.upserts[2].points) < index_batch_size
    /\ indexer.stats.doc_entries > 0

====
